---- MODULE Spec2Model ----
(***************************************************************************)
(* Model of cryptapi/crypt_api.py: the CryptAPIHelper payment context, its *)
(* instance and static operations and the shared request dispatch.         *)
(*                                                                         *)
(* Strings the code computes with (coin tickers, URLs, display names) are  *)
(* sequences of one-character strings; strings the code only stores and    *)
(* forwards (addresses, messages, JSON scalars) are TLA+ strings.          *)
(* An Optional[str] argument is None or Some(s).  A JSON object / Python   *)
(* dict is a function from its keys to its values.                         *)
(* Every coroutine is split at its one await of session.get: the Call      *)
(* action runs the code up to the await, the Resume action runs the rest;  *)
(* inflight is the bag of coroutines suspended at that await.              *)
(***************************************************************************)
EXTENDS Integers, Sequences, FiniteSets, Bags, TLC

VARIABLES ctx, inflight, last, requests, openTransports, received, stored, arg, res

vars == <<ctx, inflight, last, requests, openTransports, received, stored, arg, res>>

----------------------------------------------------------------------------
(* Bounds *)

MaxInflight == 2
MaxRequests == 2
MaxLen == 3

----------------------------------------------------------------------------
(* Values *)

None == [some |-> FALSE]
Some(x) == [some |-> TRUE, v |-> x]

\* Python truthiness of an Optional[str] holding a character sequence
Truthy(o) == o.some /\ o.v # <<>>

EmptyDict == [k \in {} |-> 0]

\* d[k] = v on a dict
Put(d, k, v) == [x \in DOMAIN d \cup {k} |-> IF x = k THEN v ELSE d[x]]

\* {**a, **b}
Merge(a, b) == [x \in DOMAIN a \cup DOMAIN b |-> IF x \in DOMAIN b THEN b[x] ELSE a[x]]

\* str.replace(old, new) for one-character old and new
Replace(s, old, new) == [i \in 1..Len(s) |-> IF s[i] = old THEN new ELSE s[i]]

CRYPTAPI_URL == <<"h","t","t","p","s",":","/","/","a","p","i",".","c","r","y","p","t","a","p","i",".","i","o","/">>
CRYPTAPI_HOST == "api.cryptapi.io"

EpCreate == <<"c","r","e","a","t","e">>
EpLogs == <<"l","o","g","s">>
EpQrcode == <<"q","r","c","o","d","e">>
EpConvert == <<"c","o","n","v","e","r","t">>
EpInfo == <<"i","n","f","o">>
EpEstimate == <<"e","s","t","i","m","a","t","e">>
Endpoints == {EpCreate, EpLogs, EpQrcode, EpConvert, EpInfo, EpEstimate}

Btc == <<"b","t","c">>
Trc20 == <<"t","r","c","2","0">>
Usdt == <<"u","s","d","t">>
Usdc == <<"u","s","d","c">>
Usd == <<"u","s","d">>
PolygonUsdt == <<"p","o","l","y","g","o","n","_","u","s","d","t">>
Trc20Usdt == <<"t","r","c","2","0","_","u","s","d","t">>
OwnerAddr == <<"o">>
CallbackUrl == <<"u">>
Email == <<"e">>

Contexts == {"c1", "c2"}
Static == "static"

MsgInitCoin == "CryptAPIHelper.__init__ Error: Coin is Missing."
MsgInitOwner == "CryptAPIHelper.__init__ Error: Owner Address is Missing."
MsgInitCallback == "CryptAPIHelper.__init__ Error: Callback URL is Missing."
MsgFromCoin == "CryptAPIHelper.get_conversion Error: From Coin is Missing."
MsgInfoCoin == "CryptAPIHelper.get_coin_info Error: Coin is Missing."
MsgFeesCoin == "CryptAPIHelper.get_estimate_fees Error: Coin is Missing."

----------------------------------------------------------------------------
(* Inputs *)

\* decoded response bodies: any subset of the keys status, error, address_in
KStatus == <<"s","t","a","t","u","s">>
KError == <<"e","r","r","o","r">>
KAddressIn == <<"a","d","d","r","e","s","s","_","i","n">>
RespKeys == {KStatus, KError, KAddressIn}
RespVals(k) == CASE k = KStatus -> {"success", "error"}
                 [] k = KError -> {"bad address"}
                 [] k = KAddressIn -> {"X", "Y"}
AllResponses == UNION {{d \in [D -> {"success", "error", "bad address", "X", "Y"}] :
                           \A k \in D : d[k] \in RespVals(k)} : D \in SUBSET RespKeys}
\* the bodies the gateway is taken to answer with while contexts are in use:
\* an `error` field comes with an error status only
Responses == {d \in AllResponses :
                 KError \in DOMAIN d => (KStatus \in DOMAIN d /\ d[KStatus] = "error")}

CtorCoins == {None, Some(<<>>), Some(Btc), Some(PolygonUsdt)}
CtorOwners == {None, Some(<<>>), Some(OwnerAddr)}
CtorCallbacks == {None, Some(<<>>), Some(CallbackUrl)}
CtorArgs == {[coin |-> a, owner_address |-> b, callback_url |-> c] :
                a \in CtorCoins, b \in CtorOwners, c \in CtorCallbacks}
\* the constructor calls made while contexts are in use
UsedCtorArgs == {a \in CtorArgs :
                    /\ a.coin \in {None, Some(PolygonUsdt)}
                    /\ a.owner_address \in {Some(<<>>), Some(OwnerAddr)}
                    /\ a.callback_url \in {None, Some(CallbackUrl)}
                    /\ Cardinality({f \in {"coin", "owner_address", "callback_url"} :
                                       ~Truthy(a[f])}) <= 1}
GenerateArgs == {[be_notified |-> FALSE, owner_email |-> None, priority |-> "default"],
                 [be_notified |-> TRUE, owner_email |-> Some(Email), priority |-> "fast"]}
Sizes == {32, 512, 2048}
FromCoins == {None, Some(<<>>), Some(Usd)}
StaticCoins == {None, Some(<<>>), Some(Trc20Usdt)}

----------------------------------------------------------------------------
(* Outcomes of a call *)

Returned(v) == [outcome |-> "returned", value |-> v, msg |-> None]
Raised(kind, m) == [outcome |-> kind, value |-> None, msg |-> Some(m)]
TransportFailure == [outcome |-> "TransportError", value |-> None, msg |-> None]

Result(op, c, o, resp) ==
    [op |-> op, c |-> c, outcome |-> o.outcome, value |-> o.value, msg |-> o.msg, resp |-> resp]

NoCall == Result("none", Static, Returned(None), None)

\* a coroutine suspended at the await of session.get: the operation, its context,
\* the arguments it was called with and the request it handed to session.get
Awaiting(op, c, args, req) == [op |-> op, c |-> c, args |-> args, req |-> req]
NoArgs == EmptyDict

NoCtx == [session |-> "none", coin |-> <<>>, owner_address |-> <<>>,
          callback_url |-> <<>>, payment_address |-> ""]

----------------------------------------------------------------------------
(* process_request *)

\* a decoded body that reports an error
IsError(d) == KStatus \in DOMAIN d /\ d[KStatus] = "error"

\* RequestURL without the replacement of underscores
RequestURL_NoReplace(coin, endpoint) ==
    LET c1 == IF coin # <<>> THEN coin \o <<"/">> ELSE coin
    IN  CRYPTAPI_URL \o c1 \o endpoint \o <<"/">>

\* lines 300-308: the URL handed to session.get
RequestURL(coin, endpoint) ==
    LET c1 == IF coin # <<>> THEN coin \o <<"/">> ELSE coin
    IN  CRYPTAPI_URL \o Replace(c1, "_", "/") \o endpoint \o <<"/">>

Request(coin, endpoint, params) ==
    [url |-> RequestURL(coin, endpoint), params |-> params]

\* ProcessResponse without the status check
ProcessResponse_IgnoresStatus(data) == Returned(Some(data))

\* lines 312-316: the decoded body is checked for an error status
ProcessResponse(data) ==
    IF (IF KStatus \in DOMAIN data THEN data[KStatus] ELSE "") = "error"
    THEN IF KError \in DOMAIN data
         THEN Raised("GatewayError", data[KError])
         ELSE Raised("KeyError", "error")
    ELSE Returned(Some(data))

----------------------------------------------------------------------------
(* Construction and release of a payment context *)

\* InitCheck with the owner address checked before the coin
InitCheck_OwnerFirst(coin, owner_address, callback_url) ==
    IF ~Truthy(owner_address) THEN Raised("GatewayError", MsgInitOwner)
    ELSE IF ~Truthy(coin) THEN Raised("GatewayError", MsgInitCoin)
    ELSE IF ~Truthy(callback_url) THEN Raised("GatewayError", MsgInitCallback)
    ELSE Returned(None)

\* lines 29-34: the three checks of __init__, in source order
InitCheck(coin, owner_address, callback_url) ==
    IF ~Truthy(coin) THEN Raised("GatewayError", MsgInitCoin)
    ELSE IF ~Truthy(owner_address) THEN Raised("GatewayError", MsgInitOwner)
    ELSE IF ~Truthy(callback_url) THEN Raised("GatewayError", MsgInitCallback)
    ELSE Returned(None)

\* lines 36-45: the fields of a freshly constructed context
NewCtx(coin, owner_address, callback_url) ==
    [session |-> "open", coin |-> coin.v, owner_address |-> owner_address.v,
     callback_url |-> callback_url.v, payment_address |-> ""]

Construct(c, coin, owner_address, callback_url) ==
    /\ ctx[c].session = "none"
    /\ LET o == InitCheck(coin, owner_address, callback_url)
       IN  /\ last' = Result("__init__", c, o, None)
           /\ ctx' = IF o.outcome = "returned"
                     THEN [ctx EXCEPT ![c] = NewCtx(coin, owner_address, callback_url)]
                     ELSE ctx
    /\ UNCHANGED <<inflight, requests, openTransports, received, stored, arg, res>>

\* lines 47-51
Close(c) ==
    /\ ctx[c].session # "none"
    /\ ctx' = [ctx EXCEPT ![c].session = "closed"]
    /\ last' = Result("close", c, Returned(None), None)
    /\ UNCHANGED <<inflight, requests, openTransports, received, stored, arg, res>>

----------------------------------------------------------------------------
(* The call half of every operation: the code up to the await of session.get *)

\* a static operation enters `async with aiohttp.ClientSession()` before the request
TransportsOpened(n, c) == IF c = Static THEN n + 1 ELSE n

\* line 303: session.get is invoked once; on a closed pooled session it raises at once
Dispatch(op, c, args, coin, endpoint, params) ==
    /\ BagCardinality(inflight) < MaxInflight
    /\ requests < MaxRequests
    /\ requests' = requests + 1
    /\ IF c # Static /\ ctx[c].session = "closed"
       THEN /\ last' = Result(op, c, TransportFailure, None)
            /\ UNCHANGED <<inflight, openTransports>>
       ELSE /\ inflight' = inflight (+) SetToBag({Awaiting(op, c, args, Request(coin, endpoint, params))})
            /\ openTransports' = TransportsOpened(openTransports, c)
            /\ UNCHANGED last
    /\ UNCHANGED <<ctx, received, stored, arg, res>>

\* a local precondition failure: the call raises before anything else happens
FailLocally(op, c, m) ==
    /\ last' = Result(op, c, Raised("GatewayError", m), None)
    /\ UNCHANGED <<ctx, inflight, requests, openTransports, received, stored, arg, res>>

\* lines 84-106
CreateParams(self, be_notified, owner_email, priority) ==
    LET p1 == [k \in {"pending"} |-> IF be_notified THEN 1 ELSE 0]
        p2 == IF Truthy(owner_email) THEN Put(p1, "email", owner_email.v) ELSE p1
        p3 == Put(Put(Put(Put(p2, "post", 0), "json", 1), "priority", priority), "convert", 0)
    IN  Merge([k \in {"callback", "address"} |->
                  IF k = "callback" THEN self.callback_url ELSE self.owner_address], p3)

GeneratePaymentAddressCall(c, be_notified, owner_email, priority) ==
    /\ ctx[c].session # "none"
    /\ Dispatch("generate_payment_address", c,
                [be_notified |-> be_notified, owner_email |-> owner_email, priority |-> priority],
                ctx[c].coin, EpCreate,
                CreateParams(ctx[c], be_notified, owner_email, priority))

\* lines 156-159
LogsParams(self) == [k \in {"callback"} |-> self.callback_url]

GetPaymentLogsCall(c) ==
    /\ ctx[c].session # "none"
    /\ Dispatch("get_payment_logs", c, NoArgs, ctx[c].coin, EpLogs, LogsParams(ctx[c]))

\* QrcodeParams with the size clamped to the documented range 64..1024
QrcodeParams_ClampsSize(self, size) ==
    [k \in {"address", "value", "size"} |->
        CASE k = "address" -> self.payment_address
          [] k = "value" -> ""
          [] k = "size" -> IF size < 64 THEN 64 ELSE IF size > 1024 THEN 1024 ELSE size]

\* lines 181-185
QrcodeParams(self, size) ==
    [k \in {"address", "value", "size"} |->
        CASE k = "address" -> self.payment_address
          [] k = "value" -> ""
          [] k = "size" -> size]

GetQrcodeCall(c, size) ==
    /\ ctx[c].session # "none"
    /\ Dispatch("get_qrcode", c, [size |-> size], ctx[c].coin, EpQrcode, QrcodeParams(ctx[c], size))

\* ConversionCheck that rejects None but lets the empty string through
ConversionCheck_NoneOnly(from_coin) == from_coin.some

\* lines 210-211
ConversionCheck(from_coin) == Truthy(from_coin)

\* lines 212-215
ConversionParams(from_coin, value) ==
    [k \in {"from", "value"} |-> IF k = "from" THEN from_coin ELSE value]

GetConversionCall(c, from_coin, value) ==
    /\ ctx[c].session # "none"
    /\ IF ConversionCheck(from_coin)
       THEN Dispatch("get_conversion", c, [from_coin |-> from_coin, value |-> value],
                     ctx[c].coin, EpConvert,
                     ConversionParams(from_coin, value))
       ELSE FailLocally("get_conversion", c, MsgFromCoin)

\* lines 226-227
InfoParams == [k \in {"prices"} |-> "0"]

GetInfoCall == Dispatch("get_info", Static, NoArgs, <<>>, EpInfo, InfoParams)

\* line 237: get_supported_coins awaits get_info
GetSupportedCoinsCall ==
    Dispatch("get_supported_coins", Static, NoArgs, <<>>, EpInfo, InfoParams)

\* lines 260-263
GetCoinInfoCall(coin) ==
    IF Truthy(coin)
    THEN Dispatch("get_coin_info", Static, [coin |-> coin], coin.v, EpInfo, InfoParams)
    ELSE FailLocally("get_coin_info", Static, MsgInfoCoin)

\* lines 285-288
EstimateParams(addresses, priority) ==
    [k \in {"addresses", "priority"} |-> IF k = "addresses" THEN addresses ELSE priority]

\* lines 283-290
GetEstimateFeesCall(coin, addresses, priority) ==
    IF Truthy(coin)
    THEN Dispatch("get_estimate_fees", Static,
                  [coin |-> coin, addresses |-> addresses, priority |-> priority], coin.v, EpEstimate,
                  EstimateParams(addresses, priority))
    ELSE FailLocally("get_estimate_fees", Static, MsgFeesCoin)

----------------------------------------------------------------------------
(* The resume half: the awaited request completes and the operation returns *)

\* TransportsClosed that releases the transport on a normal return only
TransportsClosed_LeaksOnError(n, c, o) ==
    IF c = Static /\ o.outcome = "returned" THEN n - 1 ELSE n

\* leaving `async with aiohttp.ClientSession()` closes the transport on every exit path
TransportsClosed(n, c, o) == IF c = Static THEN n - 1 ELSE n

\* GenerateTail that stores an address only while payment_address is still empty
GenerateTail_KeepsFirst(o, payment_address) ==
    IF o.outcome # "returned"
    THEN [out |-> o, payment_address |-> payment_address]
    ELSE LET _address == o.value.v
         IN  IF DOMAIN _address # {}
             THEN IF KAddressIn \in DOMAIN _address
                  THEN [out |-> o,
                        payment_address |-> IF payment_address = ""
                                            THEN _address[KAddressIn] ELSE payment_address]
                  ELSE [out |-> Raised("KeyError", "address_in"),
                        payment_address |-> payment_address]
             ELSE [out |-> o, payment_address |-> payment_address]

\* GenerateTail that resets payment_address when the request raised
GenerateTail_ClearsOnFailure(o, payment_address) ==
    IF o.outcome # "returned"
    THEN [out |-> o, payment_address |-> ""]
    ELSE LET _address == o.value.v
         IN  IF DOMAIN _address # {}
             THEN IF KAddressIn \in DOMAIN _address
                  THEN [out |-> o, payment_address |-> _address[KAddressIn]]
                  ELSE [out |-> Raised("KeyError", "address_in"),
                        payment_address |-> payment_address]
             ELSE [out |-> o, payment_address |-> payment_address]

\* lines 107-114: what generate_payment_address does with the outcome of the request
GenerateTail(o, payment_address) ==
    IF o.outcome # "returned"
    THEN [out |-> o, payment_address |-> payment_address]
    ELSE LET _address == o.value.v
         IN  IF DOMAIN _address # {}
             THEN IF KAddressIn \in DOMAIN _address
                  THEN [out |-> o, payment_address |-> _address[KAddressIn]]
                  ELSE [out |-> Raised("KeyError", "address_in"),
                        payment_address |-> payment_address]
             ELSE [out |-> o, payment_address |-> payment_address]

\* the coroutine r resumes and ends with outcome o (resp: the decoded body, if one arrived)
Finish(r, o, resp) ==
    /\ inflight' = inflight (-) SetToBag({r})
    /\ last' = Result(r.op, r.c, o, resp)
    /\ openTransports' = TransportsClosed(openTransports, r.c, o)
    /\ UNCHANGED <<requests, arg, res>>

ResumeGenerate(r) ==
    /\ BagIn(r, inflight)
    /\ r.op = "generate_payment_address"
    /\ LET c == r.c
       IN  \/ /\ Finish(r, GenerateTail(TransportFailure, ctx[c].payment_address).out, None)
              /\ UNCHANGED <<ctx, received, stored>>
           \/ \E data \in Responses :
                LET o == ProcessResponse(data)
                    t == GenerateTail(o, ctx[c].payment_address)
                    got == o.outcome = "returned" /\ KAddressIn \in DOMAIN data
                IN  /\ Finish(r, t.out, Some(data))
                    /\ ctx' = [ctx EXCEPT ![c].payment_address = t.payment_address]
                    /\ received' = IF got
                                   THEN [received EXCEPT ![c] = @ \cup {data[KAddressIn]}]
                                   ELSE received
                    /\ stored' = IF got
                                 THEN [stored EXCEPT ![c] = Some(data[KAddressIn])]
                                 ELSE stored

\* ResumeRequest that also stores an address_in found in the body
ResumeRequest_StoresAddress(r) ==
    /\ BagIn(r, inflight)
    /\ r.op \notin {"generate_payment_address", "get_supported_coins"}
    /\ \/ /\ Finish(r, TransportFailure, None)
          /\ UNCHANGED ctx
       \/ \E data \in Responses :
            /\ Finish(r, ProcessResponse(data), Some(data))
            /\ ctx' = IF r.c # Static /\ ~IsError(data) /\ KAddressIn \in DOMAIN data
                      THEN [ctx EXCEPT ![r.c].payment_address = data[KAddressIn]]
                      ELSE ctx
    /\ UNCHANGED <<received, stored>>

\* every other operation returns the outcome of process_request as it is
ResumeRequest(r) ==
    /\ BagIn(r, inflight)
    /\ r.op \notin {"generate_payment_address", "get_supported_coins"}
    /\ \/ Finish(r, TransportFailure, None)
       \/ \E data \in Responses : Finish(r, ProcessResponse(data), Some(data))
    /\ UNCHANGED <<ctx, received, stored>>

----------------------------------------------------------------------------
(* get_supported_coins *)

CoinKey == <<"c","o","i","n">>
LogoKey == <<"l","o","g","o">>
FeeTiers == <<"f","e","e","_","t","i","e","r","s">>
Bitcoin == <<"B","i","t","c","o","i","n">>
Tether == <<"T","e","t","h","e","r">>

\* a top-level value of the info payload: a JSON object or a JSON array
DictV(d) == [t |-> "dict", d |-> d]
ListV == [t |-> "list", d |-> EmptyDict]

Lower == <<"a","b","c","d","e","f","g","h","i","j","k","l","m",
           "n","o","p","q","r","s","t","u","v","w","x","y","z">>
Capital == <<"A","B","C","D","E","F","G","H","I","J","K","L","M",
             "N","O","P","Q","R","S","T","U","V","W","X","Y","Z">>

\* str.upper()
UpperChar(ch) == IF \E i \in 1..26 : Lower[i] = ch
                 THEN Capital[CHOOSE i \in 1..26 : Lower[i] = ch]
                 ELSE ch
Upper(s) == [i \in 1..Len(s) |-> UpperChar(s[i])]

\* dict.pop(k, None)
Pop(d, k) == [x \in DOMAIN d \ {k} |-> d[x]]

\* TokenName without the uppercasing of the ticker
TokenName_NoUpper(ticker, token_info) ==
    token_info[CoinKey] \o <<" ", "(">> \o ticker \o <<")">>

\* line 245: the entry of one token of a multi-token chain
TokenKey(ticker, token) == ticker \o <<"_">> \o token
TokenName(ticker, token_info) == token_info[CoinKey] \o <<" ", "(">> \o Upper(ticker) \o <<")">>

\* lines 244-245: the inner loop over the tokens of one chain
RECURSIVE TokensLoop(_, _, _, _)
TokensLoop(ticker, coin_info, tokens, _coins) ==
    IF tokens = {} THEN _coins
    ELSE LET token == CHOOSE k \in tokens : TRUE
         IN  TokensLoop(ticker, coin_info, tokens \ {token},
                        Put(_coins, TokenKey(ticker, token), TokenName(ticker, coin_info[token])))

\* lines 240-246: the outer loop over the tickers of the payload
RECURSIVE TickersLoop(_, _, _)
TickersLoop(_info, tickers, _coins) ==
    IF tickers = {} THEN Returned(Some(_coins))
    ELSE LET ticker == CHOOSE k \in tickers : TRUE
             coin_info == _info[ticker]
         IN  IF coin_info.t # "dict" THEN Raised("AttributeError", "keys")
             ELSE IF CoinKey \in DOMAIN coin_info.d
             THEN TickersLoop(_info, tickers \ {ticker}, Put(_coins, ticker, coin_info.d[CoinKey]))
             ELSE TickersLoop(_info, tickers \ {ticker},
                              TokensLoop(ticker, coin_info.d, DOMAIN coin_info.d, _coins))

\* line 238
DropFeeTiers(_info) == Pop(_info, FeeTiers)

\* lines 237-246: o is the outcome of the awaited get_info
SupportedCoins(o) ==
    IF o.outcome # "returned" THEN o
    ELSE LET _info == DropFeeTiers(o.value.v)
         IN  TickersLoop(_info, DOMAIN _info, EmptyDict)

\* info payloads: each ticker is a coin with a direct `coin` field or a chain of tokens
Tickers == {Btc, Trc20}
Tokens == {Usdt, Usdc}
Names == {Bitcoin, Tether}
DirectInfos == {[k \in {CoinKey} |-> n] : n \in Names}
                 \cup {[k \in {CoinKey, LogoKey} |-> n] : n \in Names}
TokenInfos == {[k \in {CoinKey} |-> n] : n \in Names}
ChainInfos == UNION {[T -> TokenInfos] : T \in SUBSET Tokens}
TickerValues == {DictV(d) : d \in DirectInfos} \cup {DictV(d) : d \in ChainInfos}
CoinPayloads == UNION {[T -> TickerValues] : T \in SUBSET Tickers}
InfoPayloads == CoinPayloads \cup {Put(p, FeeTiers, ListV) : p \in CoinPayloads}

ExamplePayload ==
    Put(Put(Put(EmptyDict, Btc, DictV([k \in {CoinKey} |-> Bitcoin])),
            Trc20, DictV([k \in {Usdt} |-> [j \in {CoinKey} |-> Tether]])),
        FeeTiers, ListV)

ResumeSupportedCoins(r) ==
    /\ BagIn(r, inflight)
    /\ r.op = "get_supported_coins"
    /\ \/ Finish(r, SupportedCoins(TransportFailure), None)
       \/ \E data \in {d \in Responses : ProcessResponse(d).outcome # "returned"} :
            Finish(r, SupportedCoins(ProcessResponse(data)), Some(data))
       \/ \E data \in {ExamplePayload, EmptyDict} :
            Finish(r, SupportedCoins(ProcessResponse(data)), Some(data))
    /\ UNCHANGED <<ctx, received, stored>>

----------------------------------------------------------------------------
(* The helper in use: contexts are constructed, used concurrently and closed *)

Init ==
    /\ ctx = [c \in Contexts |-> NoCtx]
    /\ inflight = EmptyBag
    /\ last = NoCall
    /\ requests = 0
    /\ openTransports = 0
    /\ received = [c \in Contexts |-> {}]
    /\ stored = [c \in Contexts |-> None]
    /\ arg = None
    /\ res = None

Next ==
    \/ \E c \in Contexts, a \in UsedCtorArgs :
         Construct(c, a.coin, a.owner_address, a.callback_url)
    \/ \E c \in Contexts : Close(c)
    \/ \E c \in Contexts, a \in GenerateArgs :
         GeneratePaymentAddressCall(c, a.be_notified, a.owner_email, a.priority)
    \/ \E c \in Contexts : GetPaymentLogsCall(c)
    \/ \E c \in Contexts, size \in Sizes : GetQrcodeCall(c, size)
    \/ \E c \in Contexts, f \in FromCoins : GetConversionCall(c, f, 10)
    \/ GetInfoCall
    \/ GetSupportedCoinsCall
    \/ \E coin \in StaticCoins : GetCoinInfoCall(coin)
    \/ \E coin \in StaticCoins : GetEstimateFeesCall(coin, 1, "default")
    \/ \E r \in BagToSet(inflight) : ResumeGenerate(r)
    \/ \E r \in BagToSet(inflight) : ResumeSupportedCoins(r)
    \/ \E r \in BagToSet(inflight) : ResumeRequest(r)

Spec == Init /\ [][Next]_vars

----------------------------------------------------------------------------
(* __init__ on its own, over every combination of absent, empty and given arguments *)

InitCtor ==
    /\ ctx = [c \in Contexts |-> NoCtx]
    /\ inflight = EmptyBag
    /\ last = NoCall
    /\ requests = 0
    /\ openTransports = 0
    /\ received = [c \in Contexts |-> {}]
    /\ stored = [c \in Contexts |-> None]
    /\ arg \in CtorArgs
    /\ res = None

NextCtor == \E c \in Contexts : Construct(c, arg.coin, arg.owner_address, arg.callback_url)

SpecCtor == InitCtor /\ [][NextCtor]_vars

----------------------------------------------------------------------------
(* process_request's URL on its own, over every short coin string *)

Alphabet == {"a", "b", "_"}
CoinStrings == UNION {[1..n -> Alphabet] : n \in 0..MaxLen} \cup {Btc, PolygonUsdt, Trc20Usdt}

InitURL ==
    /\ ctx = [c \in Contexts |-> NoCtx]
    /\ inflight = EmptyBag
    /\ last = NoCall
    /\ requests = 0
    /\ openTransports = 0
    /\ received = [c \in Contexts |-> {}]
    /\ stored = [c \in Contexts |-> None]
    /\ arg \in {[coin |-> c, endpoint |-> e] : c \in CoinStrings, e \in Endpoints}
    /\ res = None

BuildURL ==
    /\ res = None
    /\ res' = Some(RequestURL(arg.coin, arg.endpoint))
    /\ UNCHANGED <<ctx, inflight, last, requests, openTransports, received, stored, arg>>

NextURL == BuildURL

SpecURL == InitURL /\ [][NextURL]_vars

----------------------------------------------------------------------------
(* get_supported_coins on its own, over every small info payload *)

InitCoins ==
    /\ ctx = [c \in Contexts |-> NoCtx]
    /\ inflight = EmptyBag
    /\ last = NoCall
    /\ requests = 0
    /\ openTransports = 0
    /\ received = [c \in Contexts |-> {}]
    /\ stored = [c \in Contexts |-> None]
    /\ arg \in InfoPayloads
    /\ res = None

FlattenCoins ==
    /\ res = None
    /\ res' = Some(SupportedCoins(ProcessResponse(arg)))
    /\ UNCHANGED <<ctx, inflight, last, requests, openTransports, received, stored, arg>>

NextCoins == FlattenCoins

SpecCoins == InitCoins /\ [][NextCoins]_vars

----------------------------------------------------------------------------
(* Vocabulary of the properties *)

DirectOps == {"get_payment_logs", "get_qrcode", "get_conversion",
              "get_info", "get_coin_info", "get_estimate_fees"}

LocalMsgs == {Some(MsgFromCoin), Some(MsgInfoCoin), Some(MsgFeesCoin)}
IsLocalFailure(l) == l.outcome = "GatewayError" /\ l.msg \in LocalMsgs

\* a step in which a suspended coroutine resumes and its operation ends
Completes == BagCardinality(inflight') < BagCardinality(inflight)
\* a step in which a coroutine suspends at session.get
Suspends == BagCardinality(inflight') > BagCardinality(inflight)

StaticInflight ==
    BagCardinality([r \in {x \in BagToSet(inflight) : x.c = Static} |-> inflight[r]])

----------------------------------------------------------------------------
(* C1 *)

\* C1: whatever the operation, a decoded body whose status is "error" makes it fail
\* with a GatewayError carrying the body's error field and return nothing; a body
\* with any other status, or none, comes back from the dispatch unchanged.
C1_ErrorStatusRaises ==
    last.resp.some =>
        LET d == last.resp.v
        IN  /\ (IsError(d) /\ KError \in DOMAIN d) =>
                  /\ last.outcome = "GatewayError"
                  /\ last.msg = Some(d[KError])
                  /\ last.value = None
            /\ (~IsError(d) /\ last.op \in DirectOps) =>
                  /\ last.outcome = "returned"
                  /\ last.value = Some(d)
            /\ (~IsError(d) /\ last.op = "generate_payment_address"
                  /\ last.outcome = "returned") => last.value = Some(d)

C1_Witness ==
    /\ last.op = "generate_payment_address"
    /\ last.outcome = "GatewayError"
    /\ last.msg = Some("bad address")

----------------------------------------------------------------------------
(* C2 *)

\* C2: __init__ fails with the message of the first missing argument in the order
\* coin, owner address, callback URL, for every combination of missing arguments;
\* it succeeds only when all three are non-empty and then payment_address is "".
C2_InitChecksInOrder ==
    /\ last.op = "__init__" =>
        /\ ~Truthy(arg.coin) =>
              last.outcome = "GatewayError" /\ last.msg = Some(MsgInitCoin)
        /\ (Truthy(arg.coin) /\ ~Truthy(arg.owner_address)) =>
              last.outcome = "GatewayError" /\ last.msg = Some(MsgInitOwner)
        /\ (Truthy(arg.coin) /\ Truthy(arg.owner_address) /\ ~Truthy(arg.callback_url)) =>
              last.outcome = "GatewayError" /\ last.msg = Some(MsgInitCallback)
        /\ (Truthy(arg.coin) /\ Truthy(arg.owner_address) /\ Truthy(arg.callback_url)) =>
              /\ last.outcome = "returned"
              /\ ctx[last.c].session = "open"
              /\ ctx[last.c].payment_address = ""
              /\ ctx[last.c].coin = arg.coin.v
              /\ ctx[last.c].owner_address = arg.owner_address.v
              /\ ctx[last.c].callback_url = arg.callback_url.v
        /\ last.outcome # "returned" => ctx[last.c].session = "none"
    /\ \A c \in Contexts :
         ctx[c].session # "none" =>
            Truthy(arg.coin) /\ Truthy(arg.owner_address) /\ Truthy(arg.callback_url)

C2_Witness ==
    /\ last.op = "__init__"
    /\ arg.coin = Some(PolygonUsdt)
    /\ arg.owner_address = Some(<<>>)
    /\ arg.callback_url = None
    /\ last.msg = Some(MsgInitOwner)

----------------------------------------------------------------------------
(* C3 *)

\* C3: when generate_payment_address gets a body with status "success" and
\* address_in X, it returns that body and the context's payment_address is X,
\* whatever payment_address was before.
C3_SuccessStoresAddress ==
    [][(/\ Completes
        /\ last'.op = "generate_payment_address"
        /\ last'.resp.some
        /\ KStatus \in DOMAIN last'.resp.v
        /\ last'.resp.v[KStatus] = "success"
        /\ KAddressIn \in DOMAIN last'.resp.v)
       => (/\ last'.outcome = "returned"
           /\ last'.value = last'.resp
           /\ ctx'[last'.c].payment_address = last'.resp.v[KAddressIn])]_vars

C3_Witness ==
    /\ last.op = "generate_payment_address"
    /\ last.outcome = "returned"
    /\ received[last.c] = {"X", "Y"}
    /\ ctx[last.c].payment_address = "Y"

----------------------------------------------------------------------------
(* C4 *)

GenerateFails ==
    /\ Completes
    /\ last'.op = "generate_payment_address"
    /\ \/ ~last'.resp.some
       \/ IsError(last'.resp.v)
       \/ KAddressIn \notin DOMAIN last'.resp.v

\* C4 as claimed: a failed generate_payment_address leaves payment_address alone and
\* returns the decoded body, or a null result when the request raised.
C4_AsClaimed ==
    [][GenerateFails =>
        /\ ctx' = ctx
        /\ last'.outcome = "returned"
        /\ last'.value = IF last'.resp.some /\ ~IsError(last'.resp.v)
                         THEN last'.resp ELSE None]_vars

\* C4: a failed generate_payment_address leaves payment_address alone; a request that
\* raised (transport failure, error status) fails the call, a non-empty body without
\* address_in fails it with a missing-key error, and only an empty body is returned.
C4_FailureLeavesAddress ==
    [][GenerateFails =>
        /\ ctx' = ctx
        /\ ~last'.resp.some => last'.outcome = "TransportError" /\ last'.value = None
        /\ last'.resp.some =>
             LET d == last'.resp.v
             IN  /\ IsError(d) =>
                       /\ last'.outcome \in {"GatewayError", "KeyError"}
                       /\ last'.value = None
                       /\ KError \in DOMAIN d =>
                             last'.outcome = "GatewayError" /\ last'.msg = Some(d[KError])
                 /\ (~IsError(d) /\ DOMAIN d # {}) =>
                       /\ last'.outcome = "KeyError"
                       /\ last'.msg = Some("address_in")
                       /\ last'.value = None
                 /\ DOMAIN d = {} =>
                       last'.outcome = "returned" /\ last'.value = Some(d)]_vars

C4_Witness ==
    /\ last.op = "generate_payment_address"
    /\ last.outcome = "TransportError"
    /\ ctx[last.c].payment_address = "X"

----------------------------------------------------------------------------
(* C5 *)

\* C5: payment_address is always "" or an address_in that generate_payment_address
\* received on the same context in a body it did not reject; only a returning
\* generate_payment_address on that context changes it, and coin, owner address and
\* callback URL never change once the context is constructed.
C5_AddressOwnedByContext ==
    /\ [](\A c \in Contexts : ctx[c].payment_address \in {""} \cup received[c])
    /\ [][\A c \in Contexts :
            /\ ctx'[c].payment_address # ctx[c].payment_address =>
                  /\ Completes
                  /\ last'.op = "generate_payment_address"
                  /\ last'.c = c
                  /\ last'.outcome = "returned"
                  /\ ctx'[c].payment_address \in received'[c]
            /\ ctx[c].session # "none" =>
                  /\ ctx'[c].coin = ctx[c].coin
                  /\ ctx'[c].owner_address = ctx[c].owner_address
                  /\ ctx'[c].callback_url = ctx[c].callback_url]_vars

C5_Witness ==
    /\ ctx["c1"].payment_address = "X"
    /\ ctx["c2"].session = "open"
    /\ ctx["c2"].payment_address = ""
    /\ last.op = "get_payment_logs"
    /\ last.c = "c2"
    /\ last.outcome = "returned"

----------------------------------------------------------------------------
(* C6 *)

\* C6: the URL is the base, then the coin with every underscore turned into a slash
\* and one slash after it (nothing at all for an empty coin), then the endpoint and
\* a slash; for "polygon_usdt" the coin part is polygon/usdt/.
C6_UrlFromCoin ==
    res.some =>
        LET coin == arg.coin
            url == res.v
            n == Len(CRYPTAPI_URL)
            k == IF coin = <<>> THEN 0 ELSE Len(coin) + 1
        IN  /\ Len(url) = n + k + Len(arg.endpoint) + 1
            /\ SubSeq(url, 1, n) = CRYPTAPI_URL
            /\ \A i \in 1..Len(coin) :
                 url[n + i] = IF coin[i] = "_" THEN "/" ELSE coin[i]
            /\ coin # <<>> => url[n + k] = "/"
            /\ SubSeq(url, n + k + 1, Len(url)) = arg.endpoint \o <<"/">>
            /\ coin = PolygonUsdt =>
                 SubSeq(url, n + 1, n + k) =
                    <<"p","o","l","y","g","o","n","/","u","s","d","t","/">>

C6_Witness ==
    /\ res.some
    /\ arg.coin = PolygonUsdt
    /\ arg.endpoint = EpLogs

----------------------------------------------------------------------------
(* C7 *)

\* C7: a call that fails a local precondition raises its own message with no request
\* dispatched and no transport opened; no request is ever in flight for a call whose
\* precondition fails; a call that passes dispatches exactly one request, and
\* nothing is sent again when the response arrives.
C7_ChecksBeforeNetwork ==
    /\ [](/\ \A r \in BagToSet(inflight) :
               /\ r.op = "get_conversion" => Truthy(r.args.from_coin)
               /\ r.op \in {"get_coin_info", "get_estimate_fees"} => Truthy(r.args.coin)
          /\ IsLocalFailure(last) =>
               last.msg = CASE last.op = "get_conversion" -> Some(MsgFromCoin)
                            [] last.op = "get_coin_info" -> Some(MsgInfoCoin)
                            [] last.op = "get_estimate_fees" -> Some(MsgFeesCoin)
                            [] OTHER -> None)
    /\ [][/\ (last' # last /\ IsLocalFailure(last')) =>
                /\ requests' = requests
                /\ inflight' = inflight
                /\ openTransports' = openTransports
          /\ Suspends =>
                /\ requests' = requests + 1
                /\ BagCardinality(inflight') = BagCardinality(inflight) + 1
          /\ Completes => requests' = requests
          /\ requests' \in {requests, requests + 1}]_vars

C7_Witness ==
    /\ last.op = "get_conversion"
    /\ last.msg = Some(MsgFromCoin)
    /\ requests = 0
    /\ inflight = EmptyBag

----------------------------------------------------------------------------
(* C8 *)

\* the flattening, stated entry by entry
C8_Directs(info) == {t \in DOMAIN info \ {FeeTiers} : CoinKey \in DOMAIN info[t].d}
C8_Chains(info) == (DOMAIN info \ {FeeTiers}) \ C8_Directs(info)

\* C8: get_supported_coins drops fee_tiers, maps each ticker with a direct coin field
\* to that name, and each token of every other ticker to "<ticker>_<token>" ->
\* "<name> (<TICKER>)"; the result has no other key.
C8_Flattening ==
    res.some =>
        /\ res.v.outcome = "returned"
        /\ LET coins == res.v.value.v
           IN  /\ DOMAIN coins =
                    C8_Directs(arg) \cup
                    UNION {{t \o <<"_">> \o k : k \in DOMAIN arg[t].d} : t \in C8_Chains(arg)}
               /\ \A t \in C8_Directs(arg) : coins[t] = arg[t].d[CoinKey]
               /\ \A t \in C8_Chains(arg) : \A k \in DOMAIN arg[t].d :
                    coins[t \o <<"_">> \o k] =
                       arg[t].d[k][CoinKey] \o <<" ", "(">> \o
                       (IF t = Trc20 THEN <<"T","R","C","2","0">> ELSE <<"B","T","C">>)
                       \o <<")">>
               /\ arg = ExamplePayload =>
                    coins = Put(Put(EmptyDict, Btc, Bitcoin),
                                Trc20Usdt,
                                <<"T","e","t","h","e","r"," ","(","T","R","C","2","0",")">>)

C8_Witness ==
    /\ res.some
    /\ arg = ExamplePayload
    /\ DOMAIN res.v.value.v = {Btc, Trc20Usdt}

----------------------------------------------------------------------------
(* C9 *)

\* C9: get_qrcode never fails locally; the request it hands to session.get goes to
\* the qrcode endpoint with address = payment_address at that moment ("" before any
\* stored address, else the address_in stored last), value = "" and the caller's size.
C9_QrcodeForwards ==
    /\ []((last.op = "get_qrcode" /\ last.outcome \notin {"returned", "TransportError"})
             => last.resp.some)
    /\ [][\A r \in BagToSet(inflight') :
            (r.op = "get_qrcode" /\ CopiesIn(r, inflight') > CopiesIn(r, inflight)) =>
               /\ r.req.url = CRYPTAPI_URL \o Replace(ctx[r.c].coin, "_", "/")
                                 \o <<"/">> \o EpQrcode \o <<"/">>
               /\ DOMAIN r.req.params = {"address", "value", "size"}
               /\ r.req.params["address"] = ctx[r.c].payment_address
               /\ r.req.params["address"] =
                     IF stored[r.c].some THEN stored[r.c].v ELSE ""
               /\ r.req.params["value"] = ""
               /\ r.req.params["size"] = r.args.size]_vars

C9_Witness ==
    \E r \in BagToSet(inflight) :
       /\ r.op = "get_qrcode"
       /\ r.args.size = 2048
       /\ r.req.params["address"] = "Y"
       /\ r.req.params["size"] = 2048

----------------------------------------------------------------------------
(* C10 *)

\* C10: the transports open for static operations are exactly those of the static
\* calls still in flight, so none outlives its call on any exit path; a pooled
\* session comes into being only with a successful construction, is closed only by
\* close, and close returns normally, sends nothing and changes no other field.
C10_TransportsReleased ==
    /\ [](openTransports = StaticInflight)
    /\ [][/\ (Completes /\ last'.c = Static) => openTransports' = openTransports - 1
          /\ \A c \in Contexts :
               /\ (ctx[c].session = "none" /\ ctx'[c].session # "none") =>
                     /\ last' = Result("__init__", c, Returned(None), None)
                     /\ ctx'[c].session = "open"
               /\ (ctx[c].session = "open" /\ ctx'[c].session # "open") =>
                     /\ last' = Result("close", c, Returned(None), None)
                     /\ ctx'[c].session = "closed"
               /\ ctx[c].session = "closed" => ctx'[c].session = "closed"
               /\ (last' # last /\ last'.op = "close" /\ last'.c = c) =>
                     /\ last'.outcome = "returned"
                     /\ ctx'[c] = [ctx[c] EXCEPT !.session = "closed"]
                     /\ requests' = requests
                     /\ inflight' = inflight
                     /\ openTransports' = openTransports]_vars

C10_Witness ==
    /\ last.op = "get_coin_info"
    /\ last.outcome = "GatewayError"
    /\ last.resp.some
    /\ openTransports = 0
    /\ \E c \in Contexts : ctx[c].session = "closed"

====
